---- MODULE Spec2Model ----
(***************************************************************************)
(* CMDC: the CommandChecker component (two versions of it are in the       *)
(* repository) and the reply-normalisation steps inside analyzeCommand.    *)
(*                                                                         *)
(* Texts (the command, the provider's reply, JSON text) are sequences of   *)
(* tokens.  A token is one character (backtick, brace, quote, space, ...)  *)
(* or one atomic word whose letters occur nowhere else ("json", the four   *)
(* field names, "null"); the text a sequence stands for is the             *)
(* concatenation of its tokens.                                            *)
(***************************************************************************)
EXTENDS Integers, Sequences, FiniteSets, TLC

VARIABLES version, envKey, customApiKey, command, analysis, loading, error,
          pending, reply, defaultType,
          darkMode, theme, effectPending, prevMode, bodyDark

\* the state of the App that renders the component with a theme
app == <<darkMode, theme, effectPending, prevMode, bodyDark>>

vars == <<version, envKey, customApiKey, command, analysis, loading, error,
          pending, reply, defaultType, app>>

----------------------------------------------------------------------------
(* Characters *)

\* BT stands for one backtick character
BT == "tick"
LB == "{"
RB == "}"
LK == "["
RK == "]"
QT == "\""
CM == ","
CL == ":"
SP == " "
NL == "\n"
JSONTAG == "json"
DIGIT == "1"
NULLWORD == "null"

\* what the regular expressions' \s and String.prototype.trim treat as blank
WS == {SP, NL}

Min(S) == CHOOSE x \in S : \A y \in S : x <= y
Max(S) == CHOOSE x \in S : \A y \in S : x >= y

\* first position >= i (1-based) holding a non-blank token, Len(s)+1 if none
SkipWs(s, i) ==
    LET rest == {j \in i..Len(s) : s[j] \notin WS}
    IN  IF rest = {} THEN Len(s) + 1 ELSE Min(rest)

\* String.prototype.trim
Trim(s) ==
    LET solid == {j \in 1..Len(s) : s[j] \notin WS}
    IN  IF solid = {} THEN <<>> ELSE SubSeq(s, Min(solid), Max(solid))

\* three backticks start at position i
FenceAt(s, i) ==
    /\ i >= 1
    /\ i + 2 <= Len(s)
    /\ s[i] = BT /\ s[i + 1] = BT /\ s[i + 2] = BT

----------------------------------------------------------------------------
(* text.match(/```(?:json)?\s*([\s\S]*?)\s*```/) *)

\* (variant: the pattern without its optional tag)
GroupStartNoTag(s, p) == SkipWs(s, p + 3)

\* where group 1 starts when the match starts at p: after the opening
\* backticks, the optional tag and the blanks that follow
GroupStart(s, p) ==
    LET q == IF p + 3 <= Len(s) /\ s[p + 3] = JSONTAG THEN p + 4 ELSE p + 3
    IN  SkipWs(s, q)

\* the positions at which the lazy group 1 may end (exclusive), when the
\* match starts at p: blanks and the closing backticks follow
GroupEnds(s, p) ==
    {e \in GroupStart(s, p)..Len(s) : FenceAt(s, SkipWs(s, e))}

\* the match object: matched, and group 1 of the leftmost match
CodeBlockMatch(text) ==
    LET starts == {p \in 1..Len(text) :
                      FenceAt(text, p) /\ GroupEnds(text, p) # {}}
    IN  IF starts = {}
        THEN [matched |-> FALSE, group |-> <<>>]
        ELSE LET p == Min(starts)
             IN  [matched |-> TRUE,
                  group |-> SubSeq(text, GroupStart(text, p),
                                   Min(GroupEnds(text, p)) - 1)]

----------------------------------------------------------------------------
(* indexOf, lastIndexOf, substring: JavaScript's 0-based indices *)

IndexOf(text, c) ==
    LET at == {i \in 1..Len(text) : text[i] = c}
    IN  IF at = {} THEN -1 ELSE Min(at) - 1

\* (variant: the first occurrence instead of the last)
FirstIndexOf(text, c) == IndexOf(text, c)

LastIndexOf(text, c) ==
    LET at == {i \in 1..Len(text) : text[i] = c}
    IN  IF at = {} THEN -1 ELSE Max(at) - 1

Clamp(i, n) == IF i < 0 THEN 0 ELSE IF i > n THEN n ELSE i

\* String.prototype.substring: both indices are clamped to 0..length and
\* swapped when the first is the larger
Substring(text, a, b) ==
    LET x == Clamp(a, Len(text))
        y == Clamp(b, Len(text))
        lo == IF x <= y THEN x ELSE y
        hi == IF x <= y THEN y ELSE x
    IN  SubSeq(text, lo + 1, hi)

\* the else branch of the extraction: the text between the braces
JsonEndMissing(jsonEnd) == jsonEnd = -1

BraceScan(text) ==
    LET jsonStart == IndexOf(text, LB)
        jsonEnd == LastIndexOf(text, RB) + 1
    IN  IF jsonStart # -1 /\ ~JsonEndMissing(jsonEnd)
        THEN Trim(Substring(text, jsonStart, jsonEnd))
        ELSE <<>>

\* (variant: the brace scan first, the fenced block when it finds nothing)
ExtractBraceFirst(text) ==
    LET codeBlockMatch == CodeBlockMatch(text)
    IN  IF BraceScan(text) # <<>>
        THEN BraceScan(text)
        ELSE Trim(codeBlockMatch.group)

\* jsonString: the fenced block's body when there is one and it is not
\* empty, the brace scan otherwise
ExtractJsonString(text) ==
    LET codeBlockMatch == CodeBlockMatch(text)
    IN  IF codeBlockMatch.matched /\ codeBlockMatch.group # <<>>
        THEN Trim(codeBlockMatch.group)
        ELSE BraceScan(text)

----------------------------------------------------------------------------
(* the three replace calls and the trim that make cleanedJsonString *)

\* .replace(/^\s*```json\s*/, '')
StripLeadingJsonFence(s) ==
    LET i == SkipWs(s, 1)
    IN  IF FenceAt(s, i) /\ i + 3 <= Len(s) /\ s[i + 3] = JSONTAG
        THEN SubSeq(s, SkipWs(s, i + 4), Len(s))
        ELSE s

\* .replace(/^\s*```\s*/, '')
StripLeadingFence(s) ==
    LET i == SkipWs(s, 1)
    IN  IF FenceAt(s, i)
        THEN SubSeq(s, SkipWs(s, i + 3), Len(s))
        ELSE s

\* .replace(/\s*```\s*$/, ''): the leftmost match starts at the blanks
\* before the last three backticks, when only blanks follow them
StripTrailingFence(s) ==
    LET solid == {j \in 1..Len(s) : s[j] \notin WS}
    IN  IF solid # {} /\ FenceAt(s, Max(solid) - 2)
        THEN LET f == Max(solid) - 2
                 before == {j \in 1..(f - 1) : s[j] \notin WS}
             IN  SubSeq(s, 1, IF before = {} THEN 0 ELSE Max(before))
        ELSE s

CleanJsonString(jsonString) ==
    Trim(StripTrailingFence(StripLeadingFence(StripLeadingJsonFence(jsonString))))

----------------------------------------------------------------------------
(* JSON values.  Every value is a record of the same shape, so that any    *)
(* two values can be compared: t is the type, s the characters of a        *)
(* string, n a number, keys and items the members of an object (in order   *)
(* of first appearance), items alone the elements of an array.             *)

JNull == [t |-> "null", s |-> <<>>, n |-> 0, keys |-> <<>>, items |-> <<>>]
JStr(s) == [t |-> "string", s |-> s, n |-> 0, keys |-> <<>>, items |-> <<>>]
JNum(n) == [t |-> "number", s |-> <<>>, n |-> n, keys |-> <<>>, items |-> <<>>]
JArr(items) ==
    [t |-> "array", s |-> <<>>, n |-> 0, keys |-> <<>>, items |-> items]
JObj(keys, items) ==
    [t |-> "object", s |-> <<>>, n |-> 0, keys |-> keys, items |-> items]

\* the result of a parsing step: the value and the position after it
ParseFail == [ok |-> FALSE, v |-> JNull, i |-> 0]
ParseOk(v, i) == [ok |-> TRUE, v |-> v, i |-> i]

\* a string starts at i (s[i] is the quote): it runs to the next quote and
\* may not hold a raw line break
ParseString(s, i) ==
    LET closes == {j \in (i + 1)..Len(s) : s[j] = QT}
    IN  IF closes = {}
        THEN ParseFail
        ELSE LET j == Min(closes)
                 content == SubSeq(s, i + 1, j - 1)
             IN  IF \E k \in 1..Len(content) : content[k] = NL
                 THEN ParseFail
                 ELSE ParseOk(JStr(content), j + 1)

RECURSIVE Ones(_)
Ones(k) == IF k = 0 THEN 0 ELSE 10 * Ones(k - 1) + 1

\* a number starts at i: the run of digits
ParseNumber(s, i) ==
    LET j == Min({k \in i..(Len(s) + 1) : k > Len(s) \/ s[k] # DIGIT})
    IN  ParseOk(JNum(Ones(j - i)), j)

\* an object member: a later member of the same name replaces the value
PutMember(keys, items, k, v) ==
    LET at == {x \in 1..Len(keys) : keys[x] = k}
    IN  IF at = {}
        THEN [keys |-> Append(keys, k), items |-> Append(items, v)]
        ELSE [keys |-> keys, items |-> [items EXCEPT ![Min(at)] = v]]

RECURSIVE ParseValue(_, _), ParseElements(_, _, _), ParseMembers(_, _, _, _)

\* the value that starts at position i, which holds no blank
ParseValue(s, i) ==
    IF i > Len(s) THEN ParseFail
    ELSE CASE s[i] = QT -> ParseString(s, i)
           [] s[i] = DIGIT -> ParseNumber(s, i)
           [] s[i] = NULLWORD -> ParseOk(JNull, i + 1)
           [] s[i] = LK ->
                LET j == SkipWs(s, i + 1)
                IN  IF j <= Len(s) /\ s[j] = RK
                    THEN ParseOk(JArr(<<>>), j + 1)
                    ELSE ParseElements(s, j, <<>>)
           [] s[i] = LB ->
                LET j == SkipWs(s, i + 1)
                IN  IF j <= Len(s) /\ s[j] = RB
                    THEN ParseOk(JObj(<<>>, <<>>), j + 1)
                    ELSE ParseMembers(s, j, <<>>, <<>>)
           [] OTHER -> ParseFail

\* the elements of an array from position i on, acc being those before
ParseElements(s, i, acc) ==
    LET r == ParseValue(s, i)
    IN  IF ~r.ok THEN ParseFail
        ELSE LET j == SkipWs(s, r.i)
             IN  IF j > Len(s) THEN ParseFail
                 ELSE IF s[j] = CM
                      THEN ParseElements(s, SkipWs(s, j + 1), Append(acc, r.v))
                 ELSE IF s[j] = RK
                      THEN ParseOk(JArr(Append(acc, r.v)), j + 1)
                 ELSE ParseFail

\* the members of an object from position i on
ParseMembers(s, i, keys, items) ==
    IF i > Len(s) \/ s[i] # QT THEN ParseFail
    ELSE LET k == ParseString(s, i)
         IN  IF ~k.ok THEN ParseFail
             ELSE LET c == SkipWs(s, k.i)
                  IN  IF c > Len(s) \/ s[c] # CL THEN ParseFail
                      ELSE LET r == ParseValue(s, SkipWs(s, c + 1))
                           IN  IF ~r.ok THEN ParseFail
                               ELSE LET j == SkipWs(s, r.i)
                                        m == PutMember(keys, items, k.v.s, r.v)
                                    IN  IF j > Len(s) THEN ParseFail
                                        ELSE IF s[j] = CM
                                             THEN ParseMembers(s, SkipWs(s, j + 1),
                                                               m.keys, m.items)
                                        ELSE IF s[j] = RB
                                             THEN ParseOk(JObj(m.keys, m.items), j + 1)
                                        ELSE ParseFail

\* JSON.parse: ok is FALSE when it throws its SyntaxError
JSONParse(s) ==
    LET r == ParseValue(s, SkipWs(s, 1))
    IN  IF r.ok /\ SkipWs(s, r.i) > Len(s)
        THEN [ok |-> TRUE, v |-> r.v]
        ELSE [ok |-> FALSE, v |-> JNull]

RECURSIVE Digits(_)
Digits(n) == IF n = 0 THEN <<>> ELSE Append(Digits(n \div 10), DIGIT)

RECURSIVE Stringify(_), StringifyItems(_, _, _)

\* the elements (keys = <<>>) or members from index x on, comma separated
StringifyItems(keys, items, x) ==
    IF x > Len(items) THEN <<>>
    ELSE (IF x > 1 THEN <<CM>> ELSE <<>>)
         \o (IF keys = <<>> THEN <<>> ELSE <<QT>> \o keys[x] \o <<QT, CL>>)
         \o Stringify(items[x])
         \o StringifyItems(keys, items, x + 1)

\* JSON.stringify, for values whose strings hold no quote and no line break
Stringify(v) ==
    CASE v.t = "null" -> <<NULLWORD>>
      [] v.t = "string" -> <<QT>> \o v.s \o <<QT>>
      [] v.t = "number" -> Digits(v.n)
      [] v.t = "array" -> <<LK>> \o StringifyItems(<<>>, v.items, 1) \o <<RK>>
      [] v.t = "object" -> <<LB>> \o StringifyItems(v.keys, v.items, 1) \o <<RB>>

----------------------------------------------------------------------------
(* The component's state *)

\* version: which of the repository's two CommandChecker components runs
V1 == "CommandChecker.tsx"
V2 == "part_000"

\* null, for the values that are strings
Null == "<null>"
\* null, for the error message (a message is a sequence of pieces)
NoError == <<>>

\* JavaScript truthiness of a string or null
TruthyStr(x) == x # Null /\ x # ""

\* JavaScript truthiness of a parsed value
Truthy(v) ==
    CASE v.t = "null" -> FALSE
      [] v.t = "string" -> v.s # <<>>
      [] v.t = "number" -> v.n # 0
      [] OTHER -> TRUE

MsgEmptyCommand == <<"Please enter a command to analyze">>

MsgNoApiKey ==
    IF version = V1
    THEN <<"Gemini API key is not set. Please set VITE_GEMINI_API_KEY in your .env file.">>
    ELSE <<"Gemini API key is not set. Please add it to your environment variables or configure a custom key in settings.">>

MsgMalformedJson ==
    <<"Failed to analyze command: Invalid JSON format in AI response. This may be due to an incomplete or malformed response from the AI service. Try running the analysis again.">>

MsgFailed(message) == <<"Failed to analyze command: ", message>>

MsgCouldNotParse == "Could not parse analysis from response"

\* (variant: the catch block without the test of the error's name)
CatchGenericOnly(name, message) == MsgFailed(message)

\* (variant: the try-again message for every error)
CatchMalformedAlways(name, message) == MsgMalformedJson

\* the catch block: the message chosen for a thrown error
CatchMessage(name, message) ==
    IF name = "SyntaxError" THEN MsgMalformedJson ELSE MsgFailed(message)

\* (variant: the environment's key comes first)
ApiKeyEnvFirst == IF version = V1 \/ TruthyStr(envKey) THEN envKey ELSE customApiKey

\* the key a request uses: the custom key if there is one (the newer
\* component only), the environment's otherwise
ApiKey == IF version = V2 /\ TruthyStr(customApiKey) THEN customApiKey ELSE envKey

ModelName(selectedModelType) ==
    IF selectedModelType = "fast" THEN "gemini-2.5-flash-lite" ELSE "gemini-2.5-flash"

\* (variant: the command trimmed before it goes into the prompt)
PromptTrimmed(cmd) == <<"Analyze the following command ... Command: ">> \o Trim(cmd)
               \o <<" Please provide the following: ... Format your response as JSON ...">>

\* the prompt: the template with the command in it
Prompt(cmd) == <<"Analyze the following command ... Command: ">> \o cmd
               \o <<" Please provide the following: ... Format your response as JSON ...">>

\* the bound on the requests in flight that the model follows
MaxPending == 2

\* the letters of a text whose tokens are letters or whole words
Letters(tok) == IF tok = "Safe" THEN <<"S", "a", "f", "e">> ELSE <<tok>>

RECURSIVE Spell(_)
Spell(s) == IF s = <<>> THEN <<>> ELSE Letters(Head(s)) \o Spell(Tail(s))

LowerCaseOf(c) ==
    CASE c = "A" -> "a" [] c = "C" -> "c" [] c = "D" -> "d" [] c = "E" -> "e"
      [] c = "G" -> "g" [] c = "N" -> "n" [] c = "O" -> "o" [] c = "P" -> "p"
      [] c = "R" -> "r" [] c = "S" -> "s" [] c = "U" -> "u"
      [] OTHER -> c

\* String.prototype.toLowerCase
ToLowerCase(s) == [i \in 1..Len(s) |-> LowerCaseOf(s[i])]

\* String.prototype.includes
Includes(s, sub) ==
    \E i \in 0..(Len(s) - Len(sub)) : SubSeq(s, i + 1, i + Len(sub)) = sub

\* the icon of the results view's safety banner
SafetyIcon(safety) ==
    LET lower == ToLowerCase(Spell(safety))
    IN  IF Includes(lower, <<"s", "a", "f", "e">>)
        THEN "fa-shield-alt"
        ELSE IF /\ Includes(lower, <<"d", "a", "n", "g", "e", "r", "o", "u", "s">>)
                /\ Includes(lower, <<"e", "x", "t", "r", "e", "m", "e", "l", "y">>)
        THEN "fa-skull-crossbones"
        ELSE "fa-exclamation-triangle"

\* the colour class of the icon
SafetyIconColour(safety) ==
    LET lower == ToLowerCase(Spell(safety))
    IN  IF Includes(lower, <<"s", "a", "f", "e">>)
        THEN "text-success"
        ELSE IF Includes(lower, <<"d", "a", "n", "g", "e", "r", "o", "u", "s">>)
        THEN "text-danger"
        ELSE "text-warning"

\* which of the three views is rendered
View ==
    IF version = V2 /\ loading /\ ~Truthy(analysis) THEN "skeleton"
    ELSE IF Truthy(analysis) /\ ~loading THEN "results"
    ELSE "form"

\* (variant: buttons without the disabled attribute)
NeverDisabled == FALSE

\* disabled={loading} on the buttons of the form

ButtonDisabled == loading

\* (variant: no setAnalysis(null) as a request starts)
KeptAnalysis(a) == a

\* setAnalysis(null) as a request starts

ClearedAnalysis(a) == JNull

NoReply == [kind |-> "none", pre |-> <<>>, fence |-> "none", body |-> <<>>,
            post |-> <<>>, name |-> "", message |-> ""]

\* (variant: the test without trim)
EmptyUntrimmed(cmd) == cmd = <<>>

\* !command.trim()

IsBlank(cmd) == Trim(cmd) = <<>>

\* (variant: a test for null alone)
MissingIfNull(k) == k = Null

\* !apiKey

MissingKey(k) == ~TruthyStr(k)

\* analyzeCommand up to its await: the two validations, the three state
\* updates and the call of generateContent
AnalyzeCommand(selectedModelType) ==
    IF IsBlank(command)
    THEN /\ error' = MsgEmptyCommand
         /\ UNCHANGED <<app, version, envKey, customApiKey, command, analysis,
                        loading, pending, reply, defaultType>>
    ELSE IF MissingKey(ApiKey)
    THEN /\ error' = MsgNoApiKey
         /\ UNCHANGED <<app, version, envKey, customApiKey, command, analysis,
                        loading, pending, reply, defaultType>>
    ELSE /\ Len(pending) < MaxPending
         /\ loading' = TRUE
         /\ error' = NoError
         /\ analysis' = ClearedAnalysis(analysis)
         /\ pending' = Append(pending, [modelName |-> ModelName(selectedModelType),
                                        prompt |-> Prompt(command),
                                        apiKey |-> ApiKey])
         /\ reply' = NoReply
         /\ UNCHANGED <<app, version, envKey, customApiKey, command, defaultType>>

\* (variant: the detailed analysis when nothing is stored)
DefaultAccurate == IF TruthyStr(defaultType) THEN defaultType ELSE "accurate"

\* localStorage.getItem('default_analysis_type') || 'fast'
DefaultAnalysisType == IF TruthyStr(defaultType) THEN defaultType ELSE "fast"

\* the text on the main button and on the dropdown item, as rendered from
\* the stored default analysis type
MainButtonLabel ==
    IF defaultType = "accurate" THEN "Detailed Analysis" ELSE "Quick Analysis"

AlternativeLabel ==
    IF defaultType = "accurate" THEN "Quick Analysis" ELSE "Detailed Analysis"

\* the main button of the newer component
HandleMainButtonAnalysis ==
    /\ version = V2
    /\ View = "form"
    /\ ~ButtonDisabled
    /\ AnalyzeCommand(DefaultAnalysisType)

\* the dropdown item of the newer component: the other type
AlternativeAnalysis ==
    /\ version = V2
    /\ View = "form"
    /\ ~ButtonDisabled
    /\ AnalyzeCommand(IF DefaultAnalysisType = "fast" THEN "accurate" ELSE "fast")

\* the two buttons of the older component
HandleQuickAnalysis ==
    /\ version = V1
    /\ View = "form"
    /\ ~ButtonDisabled
    /\ AnalyzeCommand("fast")

HandleAccurateAnalysis ==
    /\ version = V1
    /\ View = "form"
    /\ ~ButtonDisabled
    /\ AnalyzeCommand("accurate")

----------------------------------------------------------------------------
(* What the provider may answer *)

\* A stands for a letter
A == "a"
K_EXPLANATION == <<"explanation">>
K_SAFETY == <<"safety">>
K_RISKS == <<"risks">>
K_RECOMMENDATIONS == <<"recommendations">>

FENCE == <<BT, BT, BT>>

\* a record of the CommandAnalysis interface
Rec(e, sf, r, c) ==
    JObj(<<K_EXPLANATION, K_SAFETY, K_RISKS, K_RECOMMENDATIONS>>,
         <<JStr(e), JStr(sf), JArr(r), JArr(c)>>)

Strings == {<<>>, <<A>>, <<A, SP, A>>, <<BT>>, FENCE, <<LB>>, <<RB>>}

Lists == {<<>>, <<JStr(<<A>>), JStr(FENCE \o <<A>> \o FENCE)>>}

BaseRecord == Rec(<<A>>, <<"Safe">>, <<>>, <<JStr(<<A, SP, A>>)>>)

\* safety labels, letter by letter: the three of the prompt, the prompt's
\* own placeholder "Safe / Potentially Dangerous / Extremely Dangerous"
\* echoed, and labels the prompt does not list
POTENTIALLY == <<"P", "o", "t", "e", "n", "t", "i", "a", "l", "l", "y">>
EXTREMELY == <<"E", "x", "t", "r", "e", "m", "e", "l", "y">>
DANGEROUS == <<"D", "a", "n", "g", "e", "r", "o", "u", "s">>
SLASH == <<SP, "/", SP>>

SafetyLabels ==
    { <<"Safe">>,
      POTENTIALLY \o <<SP>> \o DANGEROUS,
      EXTREMELY \o <<SP>> \o DANGEROUS,
      <<"Safe">> \o SLASH \o POTENTIALLY \o <<SP>> \o DANGEROUS
          \o SLASH \o EXTREMELY \o <<SP>> \o DANGEROUS,
      <<"U", "n", "s", "a", "f", "e">>,
      <<"D", "A", "N", "G", "E", "R", "O", "U", "S">>,
      <<"C", "a", "u", "t", "i", "o", "n">> }

ValidRecords ==
    {Rec(e, <<"Safe">>, r, <<JStr(<<A>>)>>) : e \in Strings, r \in Lists}
    \cup {BaseRecord}
    \cup {Rec(<<A>>, sf, <<>>, <<JStr(<<A>>)>>) : sf \in SafetyLabels}

\* values that JSON.parse returns and that are no CommandAnalysis
OtherValues ==
    { JNull, JNum(1), JStr(<<>>), JStr(<<A>>), JArr(<<>>), JObj(<<>>, <<>>),
      JObj(<<K_EXPLANATION, K_SAFETY, K_RECOMMENDATIONS>>,
           <<JStr(<<A>>), JStr(<<"Safe">>), JArr(<<>>)>>),
      JObj(<<K_EXPLANATION, K_SAFETY, K_RISKS, K_RECOMMENDATIONS>>,
           <<JStr(<<A>>), JStr(<<"Safe">>), JStr(<<A>>), JArr(<<>>)>>),
      JObj(<<K_EXPLANATION, K_SAFETY, K_RISKS, K_RECOMMENDATIONS>>,
           <<JStr(<<A>>), JStr(<<"Safe">>), JArr(<<JNum(1)>>), JArr(<<>>)>>) }

\* the text of a value with a comma before its closing brace
TrailingComma(v) ==
    LET t == Stringify(v) IN SubSeq(t, 1, Len(t) - 1) \o <<CM, RB>>

\* the text of a value cut before its closing brace
Truncated(v) == LET t == Stringify(v) IN SubSeq(t, 1, Len(t) - 1)

MalformedBodies ==
    { TrailingComma(BaseRecord), Truncated(BaseRecord), <<LB>>, <<RB>>,
      <<A>>, <<>> }

Prose == {<<>>, <<A, SP>>, <<LB, SP>>, <<RB>>, <<BT>>, FENCE \o <<SP>>}

\* the prose before and after the body
Wrappings ==
    {<<p, <<>>>> : p \in Prose} \cup {<<<<>>, p>> : p \in Prose}
    \cup {<<<<LB, SP>>, <<RB>>>>, <<<<A, SP>>, <<SP, A>>>>}

Fences == {"none", "json", "plain"}

TextReply(pre, fence, body, post) ==
    [kind |-> "text", pre |-> pre, fence |-> fence, body |-> body,
     post |-> post, name |-> "", message |-> ""]

\* the replies: a record, and a record with a trailing comma, in every
\* wrapping; an opening brace after every prose; every other body with and
\* without a fence
TextReplies ==
    {TextReply(w[1], f, b, w[2]) :
        w \in Wrappings, f \in Fences,
        b \in {Stringify(BaseRecord), TrailingComma(BaseRecord)}}
    \cup
    {TextReply(pre, "none", <<LB>>, <<>>) : pre \in Prose}
    \cup
    {TextReply(<<>>, f, b, <<>>) :
        f \in Fences,
        b \in {Stringify(v) : v \in ValidRecords \cup OtherValues}
              \cup MalformedBodies}

\* the text of a reply: prose, the body (in a fenced block or bare), prose
Render(r) ==
    r.pre
    \o (CASE r.fence = "json" -> FENCE \o <<JSONTAG, NL>> \o r.body \o <<NL>> \o FENCE
          [] r.fence = "plain" -> FENCE \o <<NL>> \o r.body \o <<NL>> \o FENCE
          [] OTHER -> r.body)
    \o r.post

\* the errors generateContent and response.text() may throw
ProviderErrors ==
    { [kind |-> "error", pre |-> <<>>, fence |-> "none", body |-> <<>>,
       post |-> <<>>, name |-> n, message |-> m] :
        n \in {"Error", "SyntaxError"}, m \in {"fetch failed"} }

----------------------------------------------------------------------------
(* The rest of analyzeCommand, from the await on *)

\* lines 72 to 101: what the try block ends with for the text of a reply
Normalize(text) ==
    LET jsonString == ExtractJsonString(text)
    IN  IF jsonString # <<>>
        THEN LET p == JSONParse(CleanJsonString(jsonString))
             IN  IF p.ok
                 THEN [thrown |-> FALSE, v |-> p.v, name |-> "", message |-> ""]
                 ELSE [thrown |-> TRUE, v |-> JNull, name |-> "SyntaxError",
                       message |-> "Unexpected token in JSON"]
        ELSE [thrown |-> TRUE, v |-> JNull, name |-> "Error",
              message |-> MsgCouldNotParse]

Remove(seq, i) == SubSeq(seq, 1, i - 1) \o SubSeq(seq, i + 1, Len(seq))

\* (variant: setLoading(false) at the end of the try block)
LoadingAfterTryOnly(o) == IF o.thrown THEN loading ELSE FALSE

\* the finally block: setLoading(false), whatever the try block ended with
LoadingAfter(o) == FALSE

\* (variant: a failed call is made again)
InFlightAfterRetry(i, o) ==
    IF o.thrown THEN Append(Remove(pending, i), pending[i]) ELSE Remove(pending, i)

\* the requests in flight once request i has ended: no call is made in
\* the try, catch or finally block after the await
InFlightAfter(i, o) == Remove(pending, i)

\* what the try block makes of each text the provider may return
Outcome == [r \in TextReplies |-> Normalize(Render(r))]

\* setAnalysis or the catch block, then the finally block
Settle(i, r, o) ==
    /\ reply' = r
    /\ analysis' = IF o.thrown THEN analysis ELSE o.v
    /\ error' = IF o.thrown THEN CatchMessage(o.name, o.message) ELSE error
    /\ loading' = LoadingAfter(o)
    /\ pending' = InFlightAfter(i, o)
    /\ UNCHANGED <<app, version, envKey, customApiKey, command, defaultType>>

\* the provider answers request i with a text
ProviderReturns ==
    \E i \in 1..Len(pending), r \in TextReplies :
        Settle(i, r, Outcome[r])

\* the provider call of request i throws
ProviderFails ==
    \E i \in 1..Len(pending), r \in ProviderErrors :
        Settle(i, r, [thrown |-> TRUE, v |-> JNull, name |-> r.name,
                      message |-> r.message])

----------------------------------------------------------------------------
(* The other controls *)

Commands == {<<>>, <<SP>>, <<"ls">>, <<SP, "ls", NL>>}

\* the textarea's onChange
EditCommand ==
    /\ View = "form"
    /\ \E c \in Commands : c # command /\ command' = c
    /\ UNCHANGED <<app, version, envKey, customApiKey, analysis, loading, error,
                   pending, reply, defaultType>>

\* the New Analysis button of the older component's results view
ResetAnalysis ==
    /\ version = V1
    /\ View = "results"
    /\ analysis' = JNull
    /\ command' = <<>>
    /\ UNCHANGED <<app, version, envKey, customApiKey, loading, error, pending,
                   reply, defaultType>>

\* the parent's onApiKeyChange: the key it is given is the customApiKey
\* the component is rendered with from then on
OnApiKeyChange(k) == customApiKey' = k

CustomKeys == {"", "AIza-custom"}

\* Save Settings: the key typed into the modal becomes the custom key
HandleSave ==
    /\ version = V2
    /\ \E k \in CustomKeys : k # customApiKey /\ OnApiKeyChange(k)
    /\ UNCHANGED <<app, version, envKey, command, analysis, loading, error,
                   pending, reply, defaultType>>

\* Remove API Key (disabled without a key) and Reset
HandleRemoveApiKey ==
    /\ version = V2
    /\ TruthyStr(customApiKey)
    /\ OnApiKeyChange("")
    /\ UNCHANGED <<app, version, envKey, command, analysis, loading, error,
                   pending, reply, defaultType>>

HandleReset ==
    /\ version = V2
    /\ customApiKey # ""
    /\ OnApiKeyChange("")
    /\ UNCHANGED <<app, version, envKey, command, analysis, loading, error,
                   pending, reply, defaultType>>

\* the select of the default analysis type (disabled without a custom key)
SetDefaultAnalysisType ==
    /\ version = V2
    /\ TruthyStr(customApiKey)
    /\ \E t \in {"fast", "accurate"} : t # defaultType /\ defaultType' = t
    /\ UNCHANGED <<app, version, envKey, customApiKey, command, analysis, loading,
                   error, pending, reply>>

----------------------------------------------------------------------------
EnvKeys == {"", "AIza-env"}

Init ==
    /\ version \in {V1, V2}
    /\ envKey \in EnvKeys
    /\ customApiKey = Null
    /\ command = <<>>
    /\ analysis = JNull
    /\ loading = FALSE
    /\ error = NoError
    /\ pending = <<>>
    /\ reply = NoReply
    /\ defaultType = Null
    /\ darkMode = FALSE
    /\ theme = Null
    /\ effectPending = FALSE
    /\ prevMode = <<>>
    /\ bodyDark = FALSE

Next ==
    \/ HandleMainButtonAnalysis
    \/ AlternativeAnalysis
    \/ HandleQuickAnalysis
    \/ HandleAccurateAnalysis
    \/ ProviderReturns
    \/ ProviderFails
    \/ EditCommand
    \/ ResetAnalysis
    \/ HandleSave
    \/ HandleRemoveApiKey
    \/ HandleReset
    \/ SetDefaultAnalysisType

Spec == Init /\ [][Next]_vars

\* every provider call returns or fails in the end
SpecLive == Spec /\ WF_vars(ProviderReturns \/ ProviderFails)

----------------------------------------------------------------------------
(* The App with the theme: it renders the newer component with darkMode
   and without a custom key *)

\* useState's initializer: dark when 'dark' is what is stored
InitialDarkMode(stored) == stored = "dark"

\* (variant: the stored value removed for the light theme, as the body's
\* data-theme attribute is)
StoredThemeRemoved(mode) == IF mode THEN "dark" ELSE Null

\* what the effect stores for a mode
StoredTheme(mode) == IF mode THEN "dark" ELSE "light"

\* toggleTheme: setDarkMode(prevMode => !prevMode); the render that follows
\* leaves the effect to run
ToggleTheme ==
    /\ prevMode' = <<darkMode>>
    /\ darkMode' = ~darkMode
    /\ effectPending' = TRUE
    /\ UNCHANGED <<theme, bodyDark, version, envKey, customApiKey, command,
                   analysis, loading, error, pending, reply, defaultType>>

\* the effect on [darkMode]: the body's class and attribute, the stored value
ThemeEffect ==
    /\ effectPending
    /\ bodyDark' = darkMode
    /\ theme' = StoredTheme(darkMode)
    /\ effectPending' = FALSE
    /\ UNCHANGED <<darkMode, prevMode, version, envKey, customApiKey, command,
                   analysis, loading, error, pending, reply, defaultType>>

\* the page is loaded again: what is in localStorage stays, every state of
\* the components starts afresh and the effect is due after the first render
Reload ==
    /\ darkMode' = InitialDarkMode(theme)
    /\ effectPending' = TRUE
    /\ prevMode' = <<>>
    /\ bodyDark' = FALSE
    /\ command' = <<>>
    /\ analysis' = JNull
    /\ loading' = FALSE
    /\ error' = NoError
    /\ pending' = <<>>
    /\ reply' = NoReply
    /\ UNCHANGED <<theme, version, envKey, customApiKey, defaultType>>

\* the first load: nothing stored yet, or a theme stored by an earlier visit
InitApp ==
    /\ version = V2
    /\ envKey \in EnvKeys
    /\ customApiKey = Null
    /\ command = <<>>
    /\ analysis = JNull
    /\ loading = FALSE
    /\ error = NoError
    /\ pending = <<>>
    /\ reply = NoReply
    /\ defaultType = Null
    /\ theme \in {Null, "dark", "light"}
    /\ darkMode = InitialDarkMode(theme)
    /\ effectPending = TRUE
    /\ prevMode = <<>>
    /\ bodyDark = FALSE

NextApp ==
    \/ ToggleTheme
    \/ ThemeEffect
    \/ Reload
    \/ EditCommand
    \/ HandleMainButtonAnalysis
    \/ AlternativeAnalysis
    \/ ProviderReturns
    \/ ProviderFails

SpecApp == InitApp /\ [][NextApp]_vars

----------------------------------------------------------------------------
(* Vocabulary of the properties *)

HasField(v, k) == v.t = "object" /\ \E x \in 1..Len(v.keys) : v.keys[x] = k

Field(v, k) == v.items[CHOOSE x \in 1..Len(v.keys) : v.keys[x] = k]

IsStringList(v) ==
    v.t = "array" /\ \A x \in 1..Len(v.items) : v.items[x].t = "string"

\* the shape the CommandAnalysis interface declares
IsCommandAnalysis(v) ==
    /\ HasField(v, K_EXPLANATION) /\ Field(v, K_EXPLANATION).t = "string"
    /\ HasField(v, K_SAFETY) /\ Field(v, K_SAFETY).t = "string"
    /\ HasField(v, K_RISKS) /\ IsStringList(Field(v, K_RISKS))
    /\ HasField(v, K_RECOMMENDATIONS) /\ IsStringList(Field(v, K_RECOMMENDATIONS))

\* a and r have the same fields with the same values
SameFields(a, r) ==
    /\ a.t = "object" /\ r.t = "object"
    /\ {a.keys[x] : x \in 1..Len(a.keys)} = {r.keys[x] : x \in 1..Len(r.keys)}
    /\ \A x \in 1..Len(r.keys) : Field(a, r.keys[x]) = r.items[x]

HasFenceMarker(t) == \E i \in 1..Len(t) : FenceAt(t, i)

Has(t, c) == \E i \in 1..Len(t) : t[i] = c

\* the reply holds a well-formed object: its body is the text of a record
WellFormed(r) ==
    r.kind = "text" /\ \E v \in ValidRecords : r.body = Stringify(v)

\* the record a well-formed reply holds
Embedded(r) == CHOOSE v \in ValidRecords : r.body = Stringify(v)

\* nothing in the reply but its own fence reads as a fence, and, when there
\* is no fenced block, the object's braces are the outermost ones
PlainWrapping(r) ==
    /\ ~Has(r.pre, BT) /\ ~Has(r.post, BT)
    /\ ~HasFenceMarker(r.body)
    /\ r.fence = "none" => ~Has(r.pre, LB) /\ ~Has(r.post, RB)

\* a step in which a request in flight comes to its end
Completes == Len(pending') < Len(pending)

\* a step in which analyzeCommand is called
Invoked ==
    \/ HandleMainButtonAnalysis
    \/ AlternativeAnalysis
    \/ HandleQuickAnalysis
    \/ HandleAccurateAnalysis

\* the candidate JSON.parse is given for a reply
Candidate(r) == CleanJsonString(ExtractJsonString(Render(r)))

----------------------------------------------------------------------------
(* C1 *)

\* C1, as stated: for every well-formed reply (an object with the four
\* fields, in a fenced block or not, in any prose) the request ends with
\* the embedded record in analysis and no error.
C1_AnyProse ==
    [][Completes =>
         \A r \in {reply'} :
            WellFormed(r)
              => (SameFields(analysis', Embedded(r)) /\ error' = NoError)]_vars

\* C1, amended: the same for every well-formed reply whose prose holds no
\* backtick, whose object holds no run of three backticks and, when the
\* object is not in a fenced block, with no opening brace before it and no
\* closing brace after it.
C1_PlainWrapping ==
    [][Completes =>
         \A r \in {reply'} :
            (WellFormed(r) /\ PlainWrapping(r))
              => (SameFields(analysis', Embedded(r)) /\ error' = NoError)]_vars

\* a record was taken from a fenced block that prose with braces surrounds
C1_Witness ==
    /\ WellFormed(reply) /\ PlainWrapping(reply)
    /\ reply.fence = "plain" /\ reply.pre = <<LB, SP>> /\ reply.post = <<RB>>
    /\ analysis = BaseRecord /\ error = NoError /\ ~loading

----------------------------------------------------------------------------
(* C2 *)

MsgMissingRisks == MsgFailed("missing or invalid field: risks")

\* C2, as stated: a reply whose candidate parses but has no risks field, or
\* has one that is no list of strings, ends in the failure "missing or
\* invalid field: risks" with analysis null; with an empty list as risks
\* the request succeeds.
C2_MissingRisksFails ==
    [][Completes =>
         \A r \in {reply'} :
            (r.kind = "text" /\ Candidate(r) # <<>> /\ JSONParse(Candidate(r)).ok)
              => \A v \in {JSONParse(Candidate(r)).v} :
                    IF HasField(v, K_RISKS) /\ IsStringList(Field(v, K_RISKS))
                    THEN IsCommandAnalysis(v)
                           => (analysis' = v /\ error' = NoError)
                    ELSE error' = MsgMissingRisks /\ analysis' = JNull]_vars

----------------------------------------------------------------------------
(* C3 *)

\* C3, as stated: in every reachable state a non-null analysis has the four
\* fields, two strings and two lists of strings.
C3_AnalysisIsValid == analysis # JNull => IsCommandAnalysis(analysis)

----------------------------------------------------------------------------
(* C4 *)

\* no opening brace of the text has a closing brace after it
NoBracePair(t) ==
    ~\E i \in 1..Len(t), j \in 1..Len(t) : i < j /\ t[i] = LB /\ t[j] = RB

\* C4, as stated: a reply whose text holds no pair of braces ends with the
\* error "Could not parse analysis from response", never with the
\* malformed-JSON error and never with an analysis.
C4_NoBracesNoJson ==
    [][Completes =>
         \A r \in {reply'} :
            (r.kind = "text" /\ NoBracePair(Render(r)))
              => (error' = MsgFailed(MsgCouldNotParse) /\ analysis' = JNull)]_vars

----------------------------------------------------------------------------
(* C5 *)

\* C5: a reply whose extracted and cleaned candidate is no valid JSON ends
\* with the malformed-JSON message (the one that says to try again), not
\* with "Failed to analyze command: <message>", and with analysis null.
C5_MalformedJson ==
    [][Completes =>
         \A r \in {reply'} :
            (/\ r.kind = "text"
             /\ ExtractJsonString(Render(r)) # <<>>
             /\ ~JSONParse(Candidate(r)).ok)
              => (error' = MsgMalformedJson /\ analysis' = JNull)]_vars

\* a record with a comma before its closing brace was answered
C5_Witness ==
    /\ reply.kind = "text" /\ reply.body = TrailingComma(BaseRecord)
    /\ reply.fence = "json"
    /\ error = MsgMalformedJson /\ analysis = JNull /\ ~loading

----------------------------------------------------------------------------
(* C6 *)

\* the reply that is the fenced block of a record's text and nothing else
FencedJson(v) == TextReply(<<>>, "json", Stringify(v), <<>>)

\* C6, as stated: for every valid record, backticks and braces in its
\* strings included, the reply made of a json fence, the record's text and
\* a closing fence gives the record back.
C6_RoundTripAny ==
    [][\A v \in ValidRecords :
          (Completes /\ reply' = FencedJson(v))
            => (analysis' = v /\ error' = NoError)]_vars

\* C6, amended: the same for every valid record none of whose strings
\* holds a run of three backticks (single backticks and braces included).
C6_RoundTrip ==
    [][\A v \in ValidRecords :
          (Completes /\ reply' = FencedJson(v) /\ ~HasFenceMarker(Stringify(v)))
            => (analysis' = v /\ error' = NoError)]_vars

\* the fenced text of a record with a backtick in a string came back as it
C6_Witness ==
    /\ reply = FencedJson(Rec(<<BT>>, <<"Safe">>, <<>>, <<JStr(<<A>>)>>))
    /\ analysis = Rec(<<BT>>, <<"Safe">>, <<>>, <<JStr(<<A>>)>>)
    /\ error = NoError /\ ~loading

----------------------------------------------------------------------------
(* C7 *)

\* C7: analyzeCommand called with a command that is empty after trimming
\* sets the validation error and does nothing else: no request is made and
\* loading, analysis and command stay as they are.
C7_EmptyCommandRejected ==
    [][(Invoked /\ Trim(command) = <<>>)
         => (/\ error' = MsgEmptyCommand
             /\ UNCHANGED <<loading, analysis, command, pending>>)]_vars

\* a command of blanks was rejected
C7_Witness ==
    /\ command = <<SP>> /\ error = MsgEmptyCommand
    /\ pending = <<>> /\ ~loading

----------------------------------------------------------------------------
(* C8 *)

\* C8: analyzeCommand called with a command that is not empty, with no
\* custom key and no environment key, sets the missing-key error; no
\* request is made and loading is not set.
C8_MissingKeyRejected ==
    [][(Invoked /\ Trim(command) # <<>>
          /\ ~TruthyStr(customApiKey) /\ ~TruthyStr(envKey))
         => (/\ error' = MsgNoApiKey
             /\ UNCHANGED <<loading, analysis, pending>>)]_vars

\* a command was rejected for want of a key, after the custom key was
\* taken away
C8_Witness ==
    /\ Trim(command) # <<>> /\ error = MsgNoApiKey
    /\ customApiKey = "" /\ envKey = ""
    /\ pending = <<>> /\ ~loading

----------------------------------------------------------------------------
(* C9 *)

\* C9: at most one request to the provider is in flight at any time.
C9_OneInFlight == Len(pending) <= 1

\* the form is shown, its buttons disabled, while a request is in flight
C9_Witness ==
    /\ Len(pending) = 1 /\ View = "form" /\ ButtonDisabled

----------------------------------------------------------------------------
(* C10 *)

\* C10: when a request that passed validation ends in a failure, analysis
\* is null after it.
C10_FailureShowsNoAnalysis ==
    [][Completes =>
         \A r \in {reply'} :
            (r.kind = "error" \/ Normalize(Render(r)).thrown)
              => (analysis' = JNull /\ error' # NoError)]_vars

\* a provider call failed in the older component and left no analysis
C10_Witness ==
    /\ version = V1 /\ reply.kind = "error" /\ pending = <<>>
    /\ error = MsgFailed("fetch failed") /\ analysis = JNull /\ ~loading

----------------------------------------------------------------------------
(* C11 *)

\* C11: given that every provider call returns or fails, a component that
\* is loading stops loading; and the step that ends a request, with an
\* analysis or with any of the failures, leaves loading false.
C11_LoadingClears ==
    /\ loading ~> ~loading
    /\ [][Completes => ~loading']_vars

\* a request that found no JSON in its reply has ended and nothing loads
C11_Witness ==
    /\ reply.kind = "text" /\ error = MsgFailed(MsgCouldNotParse)
    /\ pending = <<>> /\ ~loading

----------------------------------------------------------------------------
(* C12 *)

\* C12: when analyzeCommand is called with a tier and issues a request,
\* the request's model is gemini-2.5-flash-lite for "fast" and
\* gemini-2.5-flash for "accurate", and its prompt is the fixed template,
\* the same for both tiers, with the command's text in it as typed.
C12_TierSelectsModelOnly ==
    [][\A t \in {"fast", "accurate"} :
         (/\ View = "form" /\ ~ButtonDisabled
          /\ AnalyzeCommand(t)
          /\ Len(pending') > Len(pending))
           => \A q \in {pending'[Len(pending')]} :
                /\ q.modelName = (IF t = "fast" THEN "gemini-2.5-flash-lite"
                                                ELSE "gemini-2.5-flash")
                /\ Len(q.prompt) = Len(command) + 2
                /\ SubSeq(q.prompt, 2, Len(command) + 1) = command
                /\ q.prompt[1] = "Analyze the following command ... Command: "
                /\ q.prompt[Len(q.prompt)] =
                     " Please provide the following: ... Format your response as JSON ..."]_vars

\* an accurate request in flight for a command with blanks around it
C12_Witness ==
    /\ pending # <<>>
    /\ pending[1].modelName = "gemini-2.5-flash"
    /\ Len(pending[1].prompt) = 5
    /\ SubSeq(pending[1].prompt, 2, 4) = <<SP, "ls", NL>>

----------------------------------------------------------------------------
(* C13 *)

\* C13: a request that is issued carries the custom key whenever there is
\* a non-empty one, and the environment's key otherwise: with no custom
\* key set, and again once the custom key was removed or reset to empty.
C13_CustomKeyFirst ==
    [][(Invoked /\ Len(pending') > Len(pending))
         => \A q \in {pending'[Len(pending')]} :
              q.apiKey = (IF customApiKey \notin {Null, ""} THEN customApiKey
                                                            ELSE envKey)]_vars

\* the custom key is empty again (a default type can only be chosen while
\* a custom key is set) and a request in flight carries the environment's
\* key
C13_Witness ==
    /\ version = V2 /\ customApiKey = "" /\ defaultType # Null
    /\ envKey # ""
    /\ pending # <<>> /\ pending[1].apiKey = envKey

----------------------------------------------------------------------------
(* C14 *)

\* a step in which the provider's answer or failure reaches the component
Delivered == reply' # reply /\ reply' # NoReply

\* C14: the step that delivers an answer or a failure takes the request out
\* of flight and puts no call in its place; a call is put in flight only by
\* a step in which the user triggers an analysis, and by one such step at
\* most one call.
C14_NoRetry ==
    [][/\ Delivered => \E i \in 1..Len(pending) : pending' = Remove(pending, i)
       /\ (pending' # pending /\ ~Delivered)
            => (/\ Invoked
                /\ Len(pending') = Len(pending) + 1
                /\ SubSeq(pending', 1, Len(pending)) = pending)]_vars

\* the newer component after a provider failure: the error is shown, the
\* form is back and nothing is in flight
C14_Witness ==
    /\ version = V2 /\ reply.kind = "error" /\ reply.name = "Error"
    /\ error = MsgFailed(reply.message)
    /\ pending = <<>> /\ View = "form"

----------------------------------------------------------------------------
(* C15 *)

\* C15, as stated: in both versions of the component, whenever the results
\* view is shown the control that discards the analysis and brings the
\* form back can be used.
C15_ResetAvailable == View = "results" => ENABLED ResetAnalysis

----------------------------------------------------------------------------
(* C16 *)

\* the request ended as the parse of candidate c ends
EndsAsParseOf(c) ==
    IF JSONParse(c).ok
    THEN analysis' = JSONParse(c).v /\ error' = NoError
    ELSE analysis' = JNull /\ error' = MsgMalformedJson

\* C16, as stated: for a reply with no fenced block, the request ends as
\* the parse of the text from the first opening brace to the last closing
\* brace ends when the text holds both, and with "Could not parse analysis
\* from response", no parse attempted, when it holds only an opening
\* brace, only a closing brace or neither.
C16_BraceScan ==
    [][Completes =>
         \A r \in {reply'} : \A t \in {Render(r)} :
            (r.kind = "text" /\ ~CodeBlockMatch(t).matched)
              => IF Has(t, LB) /\ Has(t, RB)
                 THEN IndexOf(t, LB) < LastIndexOf(t, RB)
                        => EndsAsParseOf(CleanJsonString(
                              SubSeq(t, IndexOf(t, LB) + 1, LastIndexOf(t, RB) + 1)))
                 ELSE analysis' = JNull /\ error' = MsgFailed(MsgCouldNotParse)]_vars

----------------------------------------------------------------------------
(* C17 *)

\* the request ended as a request with candidate c ends: an empty candidate
\* is not parsed
EndsAsCandidate(c) ==
    IF c = <<>>
    THEN analysis' = JNull /\ error' = MsgFailed(MsgCouldNotParse)
    ELSE EndsAsParseOf(CleanJsonString(c))

\* C17, as stated: whenever the reply holds a fenced block, tagged or not,
\* whatever its body, the empty one included, the request ends as a request
\* whose candidate is the body of the first such block ends; the braces
\* outside that block play no part.
C17_FencedAlways ==
    [][Completes =>
         \A r \in {reply'} : \A t \in {Render(r)} :
            (r.kind = "text" /\ CodeBlockMatch(t).matched)
              => EndsAsCandidate(Trim(CodeBlockMatch(t).group))]_vars

\* C17, amended: whenever the first fenced block of the reply has a body
\* that is not empty, the request ends as a request whose candidate is
\* that body ends and the braces outside the block play no part; when the
\* body of the first block is empty, the request ends as the brace scan of
\* the whole reply makes it end.
C17_FencedFirst ==
    [][Completes =>
         \A r \in {reply'} : \A t \in {Render(r)} :
            (r.kind = "text" /\ CodeBlockMatch(t).matched)
              => IF CodeBlockMatch(t).group # <<>>
                 THEN EndsAsCandidate(Trim(CodeBlockMatch(t).group))
                 ELSE EndsAsCandidate(BraceScan(t))]_vars

\* a record in a tagged block after a closing brace in the prose: the
\* block's body became the analysis
C17_Witness ==
    /\ reply = TextReply(<<RB>>, "json", Stringify(BaseRecord), <<>>)
    /\ analysis = BaseRecord /\ error = NoError /\ ~loading

----------------------------------------------------------------------------
(* C18 *)

\* C18, as stated: the malformed-JSON message is set only by a request
\* whose candidate was given to the parser and was no valid JSON; a request
\* whose provider call failed, whatever the name of the error, ends with
\* "Failed to analyze command: " followed by the error's message.
C18_ProviderFailureGeneric ==
    [][Completes =>
         \A r \in {reply'} :
            /\ r.kind = "error" => error' = MsgFailed(r.message)
            /\ error' = MsgMalformedJson
                 => (/\ r.kind = "text"
                     /\ ExtractJsonString(Render(r)) # <<>>
                     /\ ~JSONParse(Candidate(r)).ok)]_vars

\* C18, amended: a request whose provider call failed ends with the
\* malformed-JSON message when the error's name is SyntaxError and with
\* "Failed to analyze command: " followed by the error's message for any
\* other name; a request whose call returned a text ends with the
\* malformed-JSON message exactly when its candidate was given to the
\* parser and was no valid JSON.
C18_MessageByErrorName ==
    [][Completes =>
         \A r \in {reply'} :
            /\ r.kind = "error"
                 => error' = (IF r.name = "SyntaxError" THEN MsgMalformedJson
                                                        ELSE MsgFailed(r.message))
            /\ r.kind = "text"
                 => (error' = MsgMalformedJson
                       <=> (/\ ExtractJsonString(Render(r)) # <<>>
                            /\ ~JSONParse(Candidate(r)).ok))]_vars

\* the provider call failed with an error named SyntaxError and the
\* malformed-JSON message is shown
C18_Witness ==
    /\ reply.kind = "error" /\ reply.name = "SyntaxError"
    /\ error = MsgMalformedJson /\ analysis = JNull /\ ~loading

----------------------------------------------------------------------------
(* C19 *)

\* C19, as stated: analysis and error are never both set, and the step
\* that ends a request leaves exactly one of them set: an analysis and no
\* error, or an error and no analysis.
C19_ExactlyOneOutcome ==
    [][/\ ~(analysis' # JNull /\ error' # NoError)
       /\ Completes => \/ analysis' # JNull /\ error' = NoError
                       \/ analysis' = JNull /\ error' # NoError]_vars

----------------------------------------------------------------------------
(* C20 *)

\* C20, as stated: while loading is true, analysis and error are null; and
\* the newer component shows the skeleton exactly while a request is in
\* flight, the results exactly when analysis is not null and loading is
\* false, and the form in every other state.
C20_ThreeViews ==
    /\ loading => (analysis = JNull /\ error = NoError)
    /\ version = V2 =>
         View = (IF loading THEN "skeleton"
                 ELSE IF analysis # JNull THEN "results"
                 ELSE "form")

----------------------------------------------------------------------------
(* C21 *)

\* the model a label stands for, as the settings' options spell it out
LabelModel(label) ==
    IF label = "Quick Analysis" THEN "gemini-2.5-flash-lite" ELSE "gemini-2.5-flash"

----------------------------------------------------------------------------
(* C22 *)

\* C22, as stated: in the results view of the newer component, a safety
\* label that contains "dangerous", in whatever case, is shown with neither
\* the shield icon nor the success colour.
C22_DangerousNeverShield ==
    (/\ version = V2 /\ View = "results"
     /\ HasField(analysis, K_SAFETY) /\ Field(analysis, K_SAFETY).t = "string")
      => \A safety \in {Field(analysis, K_SAFETY).s} :
           Includes(ToLowerCase(Spell(safety)),
                    <<"d", "a", "n", "g", "e", "r", "o", "u", "s">>)
             => /\ SafetyIcon(safety) # "fa-shield-alt"
                /\ SafetyIconColour(safety) # "text-success"

----------------------------------------------------------------------------
(* C23 *)

\* C23: in the App with the theme, whenever the effect has run the stored
\* theme is 'dark' if darkMode is true and 'light' if it is false; a load
\* of the page starts with darkMode true exactly when 'dark' is stored, so
\* a reload after the effect has run starts with the darkMode there was;
\* and a toggle that follows a toggle gives darkMode the value it had
\* before the two (the stored value follows by the first clause).
C23_ThemePersists ==
    /\ darkMode = (theme = "dark")
    /\ [][/\ ~effectPending' => theme' = (IF darkMode' THEN "dark" ELSE "light")
          /\ Reload => darkMode' = (theme = "dark")
          /\ (Reload /\ ~effectPending) => darkMode' = darkMode
          /\ (ToggleTheme /\ prevMode # <<>>) => darkMode' = prevMode[1]]_vars

\* darkMode is false again after a toggle from true, and the effect has
\* stored 'light'
C23_Witness ==
    /\ ~effectPending /\ ~darkMode /\ prevMode = <<TRUE>> /\ theme = "light"
    /\ bodyDark = FALSE

====
